---- MODULE Spec2Model ----
(***************************************************************************)
(* Shuttle trip planning of src/src/shuttle_routing.py: the route catalog, *)
(* the geometry and calendar helpers, and plan_shuttle_trip as a sequence  *)
(* of steps separated by its calls to the Google Directions estimators.    *)
(*                                                                         *)
(* Units.  A distance is an integer number of millionths of a mile, a      *)
(* coordinate an integer number of ten-thousandths of a degree, a datetime *)
(* the number of seconds since Monday 00:00:00 of the week of the request  *)
(* (microseconds are never read by the code and are left out).  An         *)
(* Optional value is <<>> for None and <<v>> for the value v.              *)
(***************************************************************************)
EXTENDS Integers, Sequences, FiniteSets, TLC

VARIABLES
    ROUTES,              \* the module-level catalog (line 92)
    pc,                  \* position of the running call of plan_shuttle_trip
    origin_coords,       \* argument
    dest_coords,         \* argument
    when,                \* argument
    google_api_key,      \* argument
    o_stop, o_stop_dist, \* line 261
    d_stop, d_stop_dist, \* line 262
    route,               \* line 264, Optional
    hw,                  \* line 282, Optional
    walk_to_stop_min,    \* lines 294-300
    walk_from_stop_min,  \* lines 302-308
    uses_google_api,     \* line 291
    ext,                 \* what each estimator call returned, Optional each
    calls,               \* the estimator calls made so far, in order
    result,              \* the returned dict, Optional
    earlier,             \* an earlier call and what it returned, Optional
    parked,              \* the frames of the calls that are not running
    probe                \* the latest evaluation of a helper alone, Optional

vars == << ROUTES, pc, origin_coords, dest_coords, when, google_api_key,
           o_stop, o_stop_dist, d_stop, d_stop_dist, route, hw,
           walk_to_stop_min, walk_from_stop_min, uses_google_api, ext, calls,
           result, earlier, parked, probe >>

\* what no step of the running call touches
outside == << earlier, parked, probe >>

-----------------------------------------------------------------------------
(* Bounds of the model *)

\* callers pass the first NumPoints coordinates of QueryPoints
NumPoints == 6
\* a Directions walking duration is 30 * k seconds, k in 0..MaxWalkHalfMinutes
MaxWalkHalfMinutes == 3
\* a Directions driving duration is 30 * k seconds, k in 0..MaxDriveHalfMinutes
MaxDriveHalfMinutes == 12

-----------------------------------------------------------------------------
(* Data models *)

None == << >>

Some(v) == << v >>

Stop(name, lat, lon) == [name |-> name, lat |-> lat, lon |-> lon]

RouteDefinition(name, stops, wd_headway, we_headway, wd_span, we_span) ==
    [name |-> name, stops |-> stops,
     weekday_headway_min |-> wd_headway, weekend_headway_min |-> we_headway,
     service_span_weekday |-> wd_span, service_span_weekend |-> we_span]

\* datetime.time(hour, minute)
time(hour, minute) == [hour |-> hour, minute |-> minute]

\* a datetime on the given weekday (Monday = 0) of the week of the request
datetime(weekday, hour, minute, second) ==
    ((weekday * 24 + hour) * 60 + minute) * 60 + second

dt_weekday(dt) == (dt \div 86400) % 7

dt_hour(dt) == (dt % 86400) \div 3600

dt_minute(dt) == (dt % 3600) \div 60

\* dt + timedelta(minutes=m)
timedelta_add(dt, m) == dt + 60 * m

\* Python's round() of the quotient n / d of two non-negative integers:
\* to the nearest integer, a tie to the even one
RoundDiv(n, d) ==
    LET q == n \div d
        r == n % d
    IN  IF 2 * r < d THEN q
        ELSE IF 2 * r > d THEN q + 1
        ELSE IF q % 2 = 0 THEN q ELSE q + 1

Max(a, b) == IF a >= b THEN a ELSE b

-----------------------------------------------------------------------------
(* Geometry helpers *)

\* The coordinates of the model: the six stops of the catalog, then three
\* places that are no stop.
Coords ==
    << <<404449, -799429>>, <<404520, -799392>>, <<404633, -799214>>,
       <<404542, -799196>>, <<404288, -799465>>, <<404347, -799234>>,
       <<404449, -799650>>, <<404530, -799200>>, <<404300, -799300>> >>

\* haversine_miles between Coords[i] and Coords[j] as the code computes it,
\* rounded to a millionth of a mile
HaversineTable ==
    << <<0, 527736, 1701184, 1383385, 1128410, 1244272, 1162077, 1327783, 1232919>>,
       <<527736, 0, 1218730, 1041646, 1648308, 1455706, 1442538, 1011835, 1595201>>,
       <<1701184, 1218730, 0, 635837, 2724725, 1978887, 2621237, 715465, 2344849>>,
       <<1383385, 1041646, 635837, 0, 2254092, 1362071, 2472063, 85538, 1759239>>,
       <<1128410, 1648308, 2724725, 2254092, 0, 1281468, 1477834, 2176638, 871766>>,
       <<1244272, 1455706, 1978887, 1362071, 1281468, 0, 2298327, 1276999, 475335>>,
       <<1162077, 1442538, 2621237, 2472063, 1477834, 2298327, 0, 2431368, 2108951>>,
       <<1327783, 1011835, 715465, 85538, 2176638, 1276999, 2431368, 0, 1673907>>,
       <<1232919, 1595201, 2344849, 1759239, 871766, 475335, 2108951, 1673907, 0>> >>

CoordIndex(lat, lon) == CHOOSE i \in 1..Len(Coords) : Coords[i] = <<lat, lon>>

haversine_miles(lat1, lon1, lat2, lon2) ==
    HaversineTable[CoordIndex(lat1, lon1)][CoordIndex(lat2, lon2)]

\* the rounded minutes without the max of line 75
walking_minutes_heuristic_unclamped(miles) ==
    RoundDiv(miles * 60, 3 * 1000000)

\* lines 73-75; (miles / 3.0) * 60 is a float product, which the integer
\* quotient equals wherever it is not half a minute off a whole minute in
\* exact arithmetic
walking_minutes_heuristic(miles) ==
    Max(1, RoundDiv(miles * 60, 3 * 1000000))

-----------------------------------------------------------------------------
(* Core shuttle network *)

MOREWOOD_FORBES == Stop("Morewood & Forbes (Main Campus)", 404449, -799429)
FIFTH_AIKEN == Stop("Fifth Ave & Aiken Ave (Shadyside)", 404520, -799392)
BAKERY_SQUARE == Stop("Bakery Square (Penn Ave)", 404633, -799214)
PTC_TECH_DR == Stop("PTC (Technology Dr)", 404542, -799196)
MILL_19 == Stop("Mill 19 (Hazelwood Green)", 404288, -799465)
MURRAY_FORBES == Stop("Forbes Ave & Murray Ave (Squirrel Hill)", 404347, -799234)

\* the shipped catalog with Bakery Square made a loop back to Morewood & Forbes
ShippedROUTES_loop ==
    << RouteDefinition("A/B/AB", <<MOREWOOD_FORBES, FIFTH_AIKEN>>,
                       10, Some(15),
                       <<time(7, 0), time(23, 30)>>,
                       Some(<<time(10, 0), time(23, 30)>>)),
       RouteDefinition("C Route", <<MOREWOOD_FORBES, MURRAY_FORBES>>,
                       20, None,
                       <<time(7, 0), time(19, 30)>>,
                       None),
       RouteDefinition("PTC & Mill 19", <<MOREWOOD_FORBES, PTC_TECH_DR, MILL_19>>,
                       30, Some(45),
                       <<time(7, 0), time(20, 0)>>,
                       Some(<<time(10, 0), time(18, 0)>>)),
       RouteDefinition("Bakery Square",
                       <<MOREWOOD_FORBES, BAKERY_SQUARE, MOREWOOD_FORBES>>,
                       30, None,
                       <<time(7, 0), time(19, 30)>>,
                       None) >>

\* the catalog the module ships (lines 92-125)
ShippedROUTES ==
    << RouteDefinition("A/B/AB", <<MOREWOOD_FORBES, FIFTH_AIKEN>>,
                       10, Some(15),
                       <<time(7, 0), time(23, 30)>>,
                       Some(<<time(10, 0), time(23, 30)>>)),
       RouteDefinition("C Route", <<MOREWOOD_FORBES, MURRAY_FORBES>>,
                       20, None,
                       <<time(7, 0), time(19, 30)>>,
                       None),
       RouteDefinition("PTC & Mill 19", <<MOREWOOD_FORBES, PTC_TECH_DR, MILL_19>>,
                       30, Some(45),
                       <<time(7, 0), time(20, 0)>>,
                       Some(<<time(10, 0), time(18, 0)>>)),
       RouteDefinition("Bakery Square", <<MOREWOOD_FORBES, BAKERY_SQUARE>>,
                       30, None,
                       <<time(7, 0), time(19, 30)>>,
                       None) >>

\* A catalog of the same RouteDefinition type whose C Route runs every minute
\* on weekdays and has a weekend window but no weekend headway: the two
\* Optional weekend fields of a RouteDefinition are independent.
EditedROUTES ==
    [ShippedROUTES EXCEPT
        ![2] = RouteDefinition("C Route", <<MOREWOOD_FORBES, MURRAY_FORBES>>,
                               1, None,
                               <<time(7, 0), time(19, 30)>>,
                               Some(<<time(10, 0), time(18, 0)>>))]

Catalogs == {ShippedROUTES, EditedROUTES}

-----------------------------------------------------------------------------
(* Google helpers (optional) *)

\* What one request to the Directions client can do: raise (import, network,
\* timeout, refused key), return an empty list, return a leg without the
\* duration value, or return a leg whose duration value is a number of seconds.
Response(kind, seconds) == [kind |-> kind, seconds |-> seconds]

WalkingResponses ==
    {Response("raise", 0), Response("empty", 0), Response("malformed", 0)}
        \cup {Response("ok", 30 * k) : k \in 0..MaxWalkHalfMinutes}

DrivingResponses ==
    {Response("raise", 0), Response("empty", 0), Response("malformed", 0)}
        \cup {Response("ok", 30 * k) : k \in 0..MaxDriveHalfMinutes}

\* the outcome of a helper: it returns value, or an exception leaves it
Returned(value) == [raised |-> FALSE, value |-> value]

Raised == [raised |-> TRUE, value |-> None]

\* the body of the try block of both helpers (lines 141-149, 164-172)
DirectionsMinutes(response) ==
    CASE response.kind = "raise" -> Raised
      [] response.kind = "empty" -> Returned(None)
      [] response.kind = "malformed" -> Raised
      [] OTHER -> Returned(Some(RoundDiv(response.seconds, 60)))

\* `not api_key`
NoKey(api_key) == api_key = None \/ api_key = Some("")

\* get_walking_minutes_via_google without its except clause
get_walking_minutes_uncaught(response, api_key) ==
    IF NoKey(api_key) THEN Returned(None) ELSE DirectionsMinutes(response)

get_walking_minutes_via_google(response, api_key) ==
    IF NoKey(api_key) THEN Returned(None)
    ELSE LET tried == DirectionsMinutes(response)
         IN  IF tried.raised THEN Returned(None) ELSE tried

get_driving_minutes_via_google(response, api_key) ==
    IF NoKey(api_key) THEN Returned(None)
    ELSE LET tried == DirectionsMinutes(response)
         IN  IF tried.raised THEN Returned(None) ELSE tried

-----------------------------------------------------------------------------
(* Planning helpers *)

\* Saturday taken for a weekday
is_weekend_sunday_only(dt) == dt_weekday(dt) >= 6

\* lines 182-183
is_weekend(dt) == dt_weekday(dt) >= 5

minutes_since_midnight(dt) == dt_hour(dt) * 60 + dt_minute(dt)

\* the window without its last minute
service_is_active_exclusive_end(r, dt) ==
    LET weekend == is_weekend(dt)
        m == minutes_since_midnight(dt)
    IN  IF weekend /\ r.service_span_weekend = None THEN FALSE
        ELSE LET span == IF weekend THEN r.service_span_weekend[1]
                         ELSE r.service_span_weekday
                 start_m == span[1].hour * 60 + span[1].minute
                 end_m == span[2].hour * 60 + span[2].minute
             IN  start_m <= m /\ m < end_m

\* a route without a weekend window keeps its weekday window at weekends
service_is_active_weekday_fallback(r, dt) ==
    LET weekend == is_weekend(dt)
        m == minutes_since_midnight(dt)
        span == IF weekend /\ r.service_span_weekend # None
                THEN r.service_span_weekend[1]
                ELSE r.service_span_weekday
        start_m == span[1].hour * 60 + span[1].minute
        end_m == span[2].hour * 60 + span[2].minute
    IN  start_m <= m /\ m <= end_m

\* lines 190-201
service_is_active(r, dt) ==
    LET weekend == is_weekend(dt)
        m == minutes_since_midnight(dt)
    IN  IF weekend /\ r.service_span_weekend = None THEN FALSE
        ELSE LET span == IF weekend THEN r.service_span_weekend[1]
                         ELSE r.service_span_weekday
                 start_m == span[1].hour * 60 + span[1].minute
                 end_m == span[2].hour * 60 + span[2].minute
             IN  start_m <= m /\ m <= end_m

\* no headway outside the service window
headway_minutes_within_service(r, dt) ==
    IF ~service_is_active(r, dt) THEN None
    ELSE IF is_weekend(dt) THEN r.weekend_headway_min
    ELSE Some(r.weekday_headway_min)

\* no headway at weekends, whatever the route says
headway_minutes_weekend_none(r, dt) ==
    IF is_weekend(dt) THEN None
    ELSE Some(r.weekday_headway_min)

\* the weekday headway given at weekends and the weekend headway on weekdays
headway_minutes_swapped(r, dt) ==
    IF is_weekend(dt) THEN Some(r.weekday_headway_min)
    ELSE r.weekend_headway_min

\* lines 204-207
headway_minutes(r, dt) ==
    IF is_weekend(dt) THEN r.weekend_headway_min
    ELSE Some(r.weekday_headway_min)

RECURSIVE AllStops(_)
\* all_stops after the loop of lines 212-213 over the routes
AllStops(routes) ==
    IF routes = << >> THEN << >>
    ELSE Head(routes).stops \o AllStops(Tail(routes))

RECURSIVE Unique(_, _)
\* unique.values() after the loop of lines 216-218: the first stop of each name
Unique(stops, seen) ==
    IF stops = << >> THEN seen
    ELSE IF \E i \in 1..Len(seen) : seen[i].name = Head(stops).name
         THEN Unique(Tail(stops), seen)
         ELSE Unique(Tail(stops), Append(seen, Head(stops)))

RECURSIVE MinByDistance_last(_, _, _, _)
\* min that lets a later stop of equal distance replace the best so far
MinByDistance_last(stops, lat, lon, best) ==
    IF stops = << >> THEN best
    ELSE IF haversine_miles(lat, lon, Head(stops).lat, Head(stops).lon)
              <= haversine_miles(lat, lon, best.lat, best.lon)
         THEN MinByDistance_last(Tail(stops), lat, lon, Head(stops))
         ELSE MinByDistance_last(Tail(stops), lat, lon, best)

RECURSIVE MinByDistance(_, _, _, _)
\* min(stops, key=distance to (lat, lon)): the first stop of least distance
MinByDistance(stops, lat, lon, best) ==
    IF stops = << >> THEN best
    ELSE IF haversine_miles(lat, lon, Head(stops).lat, Head(stops).lon)
              < haversine_miles(lat, lon, best.lat, best.lon)
         THEN MinByDistance(Tail(stops), lat, lon, Head(stops))
         ELSE MinByDistance(Tail(stops), lat, lon, best)

find_nearest_stop(lat, lon) ==
    LET unique == Unique(AllStops(ROUTES), << >>)
        nearest == MinByDistance(Tail(unique), lat, lon, Head(unique))
    IN  [stop |-> nearest,
         dist |-> haversine_miles(lat, lon, nearest.lat, nearest.lon)]

\* [s.name for s in route.stops]
Names(r) == [i \in 1..Len(r.stops) |-> r.stops[i].name]

\* name in names
In(name, names) == \E i \in 1..Len(names) : names[i] = name

\* names.index(name): the first position, counted from 1
Index(names, name) ==
    CHOOSE i \in 1..Len(names) :
        names[i] = name /\ \A j \in 1..(i - 1) : names[j] # name

RECURSIVE FirstConnecting(_, _, _)
FirstConnecting(routes, origin_stop, dest_stop) ==
    IF routes = << >> THEN None
    ELSE LET names == Names(Head(routes))
         IN  IF /\ In(origin_stop.name, names)
                /\ In(dest_stop.name, names)
                /\ Index(names, origin_stop.name) # Index(names, dest_stop.name)
             THEN Some(Head(routes))
             ELSE FirstConnecting(Tail(routes), origin_stop, dest_stop)

RECURSIVE LastConnecting(_, _, _, _)
\* the loop of lines 225-229 without its return: the last route that connects
LastConnecting(routes, origin_stop, dest_stop, found) ==
    IF routes = << >> THEN found
    ELSE LET names == Names(Head(routes))
         IN  IF /\ In(origin_stop.name, names)
                /\ In(dest_stop.name, names)
                /\ Index(names, origin_stop.name) # Index(names, dest_stop.name)
             THEN LastConnecting(Tail(routes), origin_stop, dest_stop, Some(Head(routes)))
             ELSE LastConnecting(Tail(routes), origin_stop, dest_stop, found)

find_route_connecting_last(origin_stop, dest_stop) ==
    LastConnecting(ROUTES, origin_stop, dest_stop, None)

\* the first route that holds the origin stop, whatever the destination
find_route_connecting_origin_only(origin_stop, dest_stop) ==
    LET hits == {i \in 1..Len(ROUTES) : In(origin_stop.name, Names(ROUTES[i]))}
    IN  IF hits = {} THEN None
        ELSE Some(ROUTES[CHOOSE i \in hits : \A j \in hits : i <= j])

\* a route connects only when the origin comes before the destination on it
find_route_connecting_forward(origin_stop, dest_stop) ==
    LET hits == {i \in 1..Len(ROUTES) :
                    /\ In(origin_stop.name, Names(ROUTES[i]))
                    /\ In(dest_stop.name, Names(ROUTES[i]))
                    /\ Index(Names(ROUTES[i]), origin_stop.name)
                          < Index(Names(ROUTES[i]), dest_stop.name)}
    IN  IF hits = {} THEN None
        ELSE Some(ROUTES[CHOOSE i \in hits : \A j \in hits : i <= j])

\* find_route_connecting without the comparison of the two positions
find_route_connecting_any_position(origin_stop, dest_stop) ==
    LET hits == {i \in 1..Len(ROUTES) :
                    /\ In(origin_stop.name, Names(ROUTES[i]))
                    /\ In(dest_stop.name, Names(ROUTES[i]))}
    IN  IF hits = {} THEN None
        ELSE Some(ROUTES[CHOOSE i \in hits : \A j \in hits : i <= j])

find_route_connecting(origin_stop, dest_stop) ==
    FirstConnecting(ROUTES, origin_stop, dest_stop)

RECURSIVE SumHops(_, _, _)
\* the loop of lines 239-241 from position i up to, not including, ib
SumHops(r, i, ib) ==
    IF i >= ib THEN 0
    ELSE haversine_miles(r.stops[i].lat, r.stops[i].lon,
                         r.stops[i + 1].lat, r.stops[i + 1].lon)
         + SumHops(r, i + 1, ib)

\* the miles from a straight to b, whatever stops lie between them
distance_along_route_direct(r, a, b) ==
    haversine_miles(a.lat, a.lon, b.lat, b.lon)

\* the loop of lines 239-241 without the exchange of lines 236-237
distance_along_route_unswapped(r, a, b) ==
    LET names == Names(r)
        ia == Index(names, a.name)
        ib == Index(names, b.name)
    IN  SumHops(r, ia, ib)

\* lines 233-242
distance_along_route(r, a, b) ==
    LET names == Names(r)
        ia == Index(names, a.name)
        ib == Index(names, b.name)
    IN  IF ia > ib THEN SumHops(r, ib, ia) ELSE SumHops(r, ia, ib)

\* the rounded minutes without the max of line 248
estimate_in_vehicle_minutes_unfloored(route_miles) ==
    RoundDiv(route_miles * 60, 12 * 1000000)

\* lines 245-248; (route_miles / 12.0) * 60.0 is a float product, which the
\* integer quotient equals wherever it is not half a minute off a whole minute
\* in exact arithmetic
estimate_in_vehicle_minutes(route_miles) ==
    Max(3, RoundDiv(route_miles * 60, 12 * 1000000))

-----------------------------------------------------------------------------
(* plan_shuttle_trip: the values it computes and the dicts it returns *)

\* half the headway rounded up instead of down
wait_minutes_rounded_up(headway) == Max(1, (headway + 1) \div 2)

\* line 311
wait_minutes(headway) == Max(1, headway \div 2)

\* the product rounded instead of truncated
scaled_driving_minutes_rounded(driving_min) == RoundDiv(driving_min * 12, 10)

\* line 321, int(in_vehicle_min * 1.2): the product is truncated
scaled_driving_minutes(driving_min) == (driving_min * 12) \div 10

\* the total without the last walk
total_minutes_no_walk_from(walk_to, wait, in_vehicle, walk_from) ==
    walk_to + wait + in_vehicle

\* line 325
total_minutes(walk_to, wait, in_vehicle, walk_from) ==
    walk_to + wait + in_vehicle + walk_from

\* lines 330-331
board_time_of(dt, walk_to, wait) == timedelta_add(dt, walk_to + wait)

\* the arrival at the destination stop instead of at the destination
arrive_time_of_ride_only(board_time, in_vehicle, walk_from) ==
    timedelta_add(board_time, in_vehicle)

\* line 332
arrive_time_of(board_time, in_vehicle, walk_from) ==
    timedelta_add(board_time, in_vehicle + walk_from)

Digit(n) == << "0", "1", "2", "3", "4", "5", "6", "7", "8", "9" >>[n + 1]

\* a number below 100 in two digits, as %I and %M print it
TwoDigits(n) == Digit(n \div 10) \o Digit(n % 10)

\* dt.strftime("%I:%M %p").lstrip('0'): %I is 01..12, so the strip removes
\* the one leading zero of the hours 1..9 and nothing else
fmt(dt) ==
    LET hour12 == IF dt_hour(dt) % 12 = 0 THEN 12 ELSE dt_hour(dt) % 12
        I == IF hour12 < 10 THEN Digit(hour12) ELSE TwoDigits(hour12)
        p == IF dt_hour(dt) < 12 THEN "AM" ELSE "PM"
    IN  I \o ":" \o TwoDigits(dt_minute(dt)) \o " " \o p

\* lines 266-271
NoRouteResult(o, d) ==
    [success |-> FALSE,
     reason |-> "No single shuttle route connects the nearest stops",
     origin_stop |-> o.name,
     dest_stop |-> d.name]

\* lines 274-280
InactiveResult(r, o, d) ==
    [success |-> FALSE,
     reason |-> r.name \o " not operating at selected time",
     route_name |-> r.name,
     origin_stop |-> o.name,
     dest_stop |-> d.name]

\* lines 284-288
NoHeadwayResult(r) ==
    [success |-> FALSE,
     reason |-> r.name \o " has no service at this time/day",
     route_name |-> r.name]

\* the SHUTTLE step with its two stops exchanged
Steps_ride_reversed(r, o, d, walk_to, wait, in_vehicle, in_vehicle_miles, walk_from) ==
    << [type |-> "WALK", from |-> "Origin", to |-> o.name, minutes |-> walk_to],
       [type |-> "WAIT", at |-> o.name, route |-> r.name, minutes |-> wait],
       [type |-> "SHUTTLE", route |-> r.name, from |-> d.name, to |-> o.name,
        minutes |-> in_vehicle, miles |-> RoundDiv(in_vehicle_miles, 10000)],
       [type |-> "WALK", from |-> d.name, to |-> "Destination",
        minutes |-> walk_from] >>

\* lines 336-363; miles is round(in_vehicle_miles, 2), in hundredths of a mile
Steps(r, o, d, walk_to, wait, in_vehicle, in_vehicle_miles, walk_from) ==
    << [type |-> "WALK", from |-> "Origin", to |-> o.name, minutes |-> walk_to],
       [type |-> "WAIT", at |-> o.name, route |-> r.name, minutes |-> wait],
       [type |-> "SHUTTLE", route |-> r.name, from |-> o.name, to |-> d.name,
        minutes |-> in_vehicle, miles |-> RoundDiv(in_vehicle_miles, 10000)],
       [type |-> "WALK", from |-> d.name, to |-> "Destination",
        minutes |-> walk_from] >>

\* lines 365-376
Totals(walk_to, wait, in_vehicle, walk_from) ==
    [minutes |-> total_minutes(walk_to, wait, in_vehicle, walk_from),
     walk_minutes |-> walk_to + walk_from,
     wait_minutes |-> wait,
     in_vehicle_minutes |-> in_vehicle]

\* lines 311-382 once the driving helper has returned driving (Optional)
SuccessResult(r, o, d, dt, headway, walk_to, walk_from, driving, used_google) ==
    LET wait_min == wait_minutes(headway)
        in_vehicle_miles == distance_along_route(r, o, d)
        in_vehicle_min == IF driving # None
                          THEN scaled_driving_minutes(driving[1])
                          ELSE estimate_in_vehicle_minutes(in_vehicle_miles)
        board_time == board_time_of(dt, walk_to, wait_min)
        arrive_time == arrive_time_of(board_time, in_vehicle_min, walk_from)
    IN  [success |-> TRUE,
         route_name |-> r.name,
         origin_stop |-> o.name,
         dest_stop |-> d.name,
         steps |-> Steps(r, o, d, walk_to, wait_min, in_vehicle_min,
                         in_vehicle_miles, walk_from),
         totals |-> Totals(walk_to, wait_min, in_vehicle_min, walk_from),
         times |-> [board_time |-> fmt(board_time),
                    arrival_time |-> fmt(arrive_time)],
         uses_google_api |-> used_google \/ driving # None]

-----------------------------------------------------------------------------
(* The inputs of the model *)

\* positions in Coords, the places nearest the stops of the first routes first
QueryPoints == << 1, 2, 5, 6, 7, 8, 3, 4, 9 >>

Points == {Coords[QueryPoints[i]] : i \in 1..NumPoints}

\* Monday, Saturday and Sunday around the ends of the service windows
Whens ==
    { datetime(0, 6, 59, 0), datetime(0, 7, 0, 0), datetime(0, 10, 0, 0),
      datetime(0, 19, 30, 59), datetime(0, 19, 31, 0), datetime(0, 23, 30, 0),
      datetime(0, 23, 31, 0),
      datetime(5, 9, 0, 0), datetime(5, 9, 59, 59), datetime(5, 10, 0, 0),
      datetime(5, 14, 0, 0), datetime(5, 18, 0, 0), datetime(5, 18, 1, 0),
      datetime(6, 12, 0, 0), datetime(6, 23, 30, 0), datetime(6, 23, 31, 0) }

Keys == {None, Some(""), Some("key")}

\* what a helper is answered: without a usable key it makes no request
Answers(responses) ==
    IF NoKey(google_api_key) THEN {Response("unasked", 0)} ELSE responses

NoStop == Stop("", 0, 0)

NoCalls == [walk_to |-> None, walk_from |-> None, driving |-> None]

\* no call is running: the arguments and locals are unbound
Unbound ==
    /\ origin_coords = << >>
    /\ dest_coords = << >>
    /\ when = 0
    /\ google_api_key = None
    /\ o_stop = NoStop /\ o_stop_dist = 0
    /\ d_stop = NoStop /\ d_stop_dist = 0
    /\ route = None
    /\ hw = None
    /\ walk_to_stop_min = 0
    /\ walk_from_stop_min = 0
    /\ uses_google_api = FALSE
    /\ ext = NoCalls
    /\ calls = << >>
    /\ result = None

\* nothing remembered, no other call, no helper evaluated
Alone ==
    /\ earlier = None
    /\ parked = << >>
    /\ probe = None

Init ==
    /\ ROUTES \in Catalogs
    /\ pc = "idle"
    /\ Unbound
    /\ Alone

-----------------------------------------------------------------------------
(* plan_shuttle_trip, step by step *)

args == << origin_coords, dest_coords, when, google_api_key >>

\* a caller enters plan_shuttle_trip with arguments of the given sets
CallWith(points, whens, keys) ==
    /\ pc = "idle"
    /\ origin_coords' \in points
    /\ dest_coords' \in points
    /\ when' \in whens
    /\ google_api_key' \in keys
    /\ pc' = "resolve"
    /\ UNCHANGED << ROUTES, outside, o_stop, o_stop_dist, d_stop, d_stop_dist, route, hw,
                    walk_to_stop_min, walk_from_stop_min, uses_google_api,
                    ext, calls, result >>

\* the caller enters plan_shuttle_trip
Call == CallWith(Points, Whens, Keys)

\* lines 261-262
ResolveStops ==
    /\ pc = "resolve"
    /\ LET o == find_nearest_stop(origin_coords[1], origin_coords[2])
           d == find_nearest_stop(dest_coords[1], dest_coords[2])
       IN  /\ o_stop' = o.stop /\ o_stop_dist' = o.dist
           /\ d_stop' = d.stop /\ d_stop_dist' = d.dist
    /\ pc' = "connect"
    /\ UNCHANGED << ROUTES, outside, args, route, hw, walk_to_stop_min,
                    walk_from_stop_min, uses_google_api, ext, calls, result >>

\* lines 264-271
ConnectRoute ==
    /\ pc = "connect"
    /\ route' = find_route_connecting(o_stop, d_stop)
    /\ IF route' = None
       THEN pc' = "done" /\ result' = Some(NoRouteResult(o_stop, d_stop))
       ELSE pc' = "service" /\ UNCHANGED result
    /\ UNCHANGED << ROUTES, outside, args, o_stop, o_stop_dist, d_stop, d_stop_dist, hw,
                    walk_to_stop_min, walk_from_stop_min, uses_google_api,
                    ext, calls >>

\* plan_shuttle_trip without the test of line 273
CheckService_skipped ==
    /\ pc = "service"
    /\ pc' = "headway"
    /\ UNCHANGED << ROUTES, outside, args, o_stop, o_stop_dist, d_stop, d_stop_dist,
                    route, hw, walk_to_stop_min, walk_from_stop_min,
                    uses_google_api, ext, calls, result >>

\* the service tested for the time the shuttle is due, the request time plus
\* the wait
CheckService_at_departure ==
    /\ pc = "service"
    /\ LET h == headway_minutes(route[1], when)
           due == IF h = None THEN when ELSE when + 60 * wait_minutes(h[1])
       IN  IF ~service_is_active(route[1], due)
           THEN pc' = "done" /\ result' = Some(InactiveResult(route[1], o_stop, d_stop))
           ELSE pc' = "headway" /\ UNCHANGED result
    /\ UNCHANGED << ROUTES, outside, args, o_stop, o_stop_dist, d_stop, d_stop_dist,
                    route, hw, walk_to_stop_min, walk_from_stop_min,
                    uses_google_api, ext, calls >>

\* the headway looked up before the service window: a route without a headway
\* for the day fails for that, in its window or not
CheckService_headway_first ==
    /\ pc = "service"
    /\ IF headway_minutes(route[1], when) = None
       THEN pc' = "done" /\ result' = Some(NoHeadwayResult(route[1]))
       ELSE IF ~service_is_active(route[1], when)
       THEN pc' = "done" /\ result' = Some(InactiveResult(route[1], o_stop, d_stop))
       ELSE pc' = "headway" /\ UNCHANGED result
    /\ UNCHANGED << ROUTES, outside, args, o_stop, o_stop_dist, d_stop, d_stop_dist,
                    route, hw, walk_to_stop_min, walk_from_stop_min,
                    uses_google_api, ext, calls >>

\* lines 273-280
CheckService ==
    /\ pc = "service"
    /\ IF ~service_is_active(route[1], when)
       THEN pc' = "done" /\ result' = Some(InactiveResult(route[1], o_stop, d_stop))
       ELSE pc' = "headway" /\ UNCHANGED result
    /\ UNCHANGED << ROUTES, outside, args, o_stop, o_stop_dist, d_stop, d_stop_dist,
                    route, hw, walk_to_stop_min, walk_from_stop_min,
                    uses_google_api, ext, calls >>

\* a route without a headway for the day is planned with its weekday headway
CheckHeadway_defaults ==
    /\ pc = "headway"
    /\ hw' = IF headway_minutes(route[1], when) = None
             THEN Some(route[1].weekday_headway_min)
             ELSE headway_minutes(route[1], when)
    /\ pc' = "walk_to"
    /\ UNCHANGED << ROUTES, outside, args, o_stop, o_stop_dist, d_stop, d_stop_dist,
                    route, walk_to_stop_min, walk_from_stop_min,
                    uses_google_api, ext, calls, result >>

\* lines 282-291
CheckHeadway ==
    /\ pc = "headway"
    /\ hw' = headway_minutes(route[1], when)
    /\ IF hw' = None
       THEN pc' = "done" /\ result' = Some(NoHeadwayResult(route[1]))
       ELSE pc' = "walk_to" /\ UNCHANGED result
    /\ UNCHANGED << ROUTES, outside, args, o_stop, o_stop_dist, d_stop, d_stop_dist,
                    route, walk_to_stop_min, walk_from_stop_min,
                    uses_google_api, ext, calls >>

\* lines 297-300: the helper's value, else the heuristic of the origin side
walk_to_minutes(google_min) ==
    IF google_min # None THEN google_min[1]
    ELSE walking_minutes_heuristic(o_stop_dist)

\* the fallback of the last walk computed from the origin side's distance
walk_from_minutes_origin_side(google_min) ==
    IF google_min # None THEN google_min[1]
    ELSE walking_minutes_heuristic(o_stop_dist)

\* lines 305-308: the helper's value, else the heuristic of the destination side
walk_from_minutes(google_min) ==
    IF google_min # None THEN google_min[1]
    ELSE walking_minutes_heuristic(d_stop_dist)

\* lines 294-300
WalkToStopAnswered(responses) ==
    /\ pc = "walk_to"
    /\ \E response \in responses :
         LET got == get_walking_minutes_via_google(response, google_api_key)
         IN  /\ calls' = Append(calls, "walk_to")
             /\ ext' = [ext EXCEPT !.walk_to =
                            Some([response |-> response, returned |-> got])]
             /\ IF got.raised
                THEN pc' = "raised"
                     /\ UNCHANGED << walk_to_stop_min, uses_google_api >>
                ELSE /\ pc' = "walk_from"
                     /\ uses_google_api' = (uses_google_api \/ got.value # None)
                     /\ walk_to_stop_min' = walk_to_minutes(got.value)
    /\ UNCHANGED << ROUTES, outside, args, o_stop, o_stop_dist, d_stop, d_stop_dist,
                    route, hw, walk_from_stop_min, result >>

WalkToStop ==
    WalkToStopAnswered(Answers(WalkingResponses))

\* lines 302-308
WalkFromStopAnswered(responses) ==
    /\ pc = "walk_from"
    /\ \E response \in responses :
         LET got == get_walking_minutes_via_google(response, google_api_key)
         IN  /\ calls' = Append(calls, "walk_from")
             /\ ext' = [ext EXCEPT !.walk_from =
                            Some([response |-> response, returned |-> got])]
             /\ IF got.raised
                THEN pc' = "raised"
                     /\ UNCHANGED << walk_from_stop_min, uses_google_api >>
                ELSE /\ pc' = "ride"
                     /\ uses_google_api' = (uses_google_api \/ got.value # None)
                     /\ walk_from_stop_min' = walk_from_minutes(got.value)
    /\ UNCHANGED << ROUTES, outside, args, o_stop, o_stop_dist, d_stop, d_stop_dist,
                    route, hw, walk_to_stop_min, result >>

WalkFromStop ==
    WalkFromStopAnswered(Answers(WalkingResponses))

\* lines 310-382
RideAnswered(responses) ==
    /\ pc = "ride"
    /\ \E response \in responses :
         LET got == get_driving_minutes_via_google(response, google_api_key)
         IN  /\ calls' = Append(calls, "driving")
             /\ ext' = [ext EXCEPT !.driving =
                            Some([response |-> response, returned |-> got])]
             /\ IF got.raised
                THEN pc' = "raised" /\ UNCHANGED << uses_google_api, result >>
                ELSE /\ pc' = "done"
                     /\ uses_google_api' = (uses_google_api \/ got.value # None)
                     /\ result' = Some(SuccessResult(
                            route[1], o_stop, d_stop, when, hw[1],
                            walk_to_stop_min, walk_from_stop_min, got.value,
                            uses_google_api))
    /\ UNCHANGED << ROUTES, outside, args, o_stop, o_stop_dist, d_stop, d_stop_dist,
                    route, hw, walk_to_stop_min, walk_from_stop_min >>

Ride ==
    RideAnswered(Answers(DrivingResponses))

\* uses_google_api kept in a module-level flag that no call resets
Return_keeps_flag ==
    /\ pc \in {"done", "raised"}
    /\ pc' = "idle"
    /\ origin_coords' = << >>
    /\ dest_coords' = << >>
    /\ when' = 0
    /\ google_api_key' = None
    /\ o_stop' = NoStop /\ o_stop_dist' = 0
    /\ d_stop' = NoStop /\ d_stop_dist' = 0
    /\ route' = None
    /\ hw' = None
    /\ walk_to_stop_min' = 0
    /\ walk_from_stop_min' = 0
    /\ ext' = NoCalls
    /\ calls' = << >>
    /\ result' = None
    /\ UNCHANGED << ROUTES, outside, uses_google_api >>

\* the call has returned (or an exception has left it): its frame is dropped
Return ==
    /\ pc \in {"done", "raised"}
    /\ pc' = "idle"
    /\ origin_coords' = << >>
    /\ dest_coords' = << >>
    /\ when' = 0
    /\ google_api_key' = None
    /\ o_stop' = NoStop /\ o_stop_dist' = 0
    /\ d_stop' = NoStop /\ d_stop_dist' = 0
    /\ route' = None
    /\ hw' = None
    /\ walk_to_stop_min' = 0
    /\ walk_from_stop_min' = 0
    /\ uses_google_api' = FALSE
    /\ ext' = NoCalls
    /\ calls' = << >>
    /\ result' = None
    /\ UNCHANGED << ROUTES, outside >>

Next ==
    \/ Call
    \/ ResolveStops
    \/ ConnectRoute
    \/ CheckService
    \/ CheckHeadway
    \/ WalkToStop
    \/ WalkFromStop
    \/ Ride
    \/ Return

Spec == Init /\ [][Next]_vars

-----------------------------------------------------------------------------
(* Calls one after another, one of them remembered *)

\* the callers of this specification pass the first NumRepeatPoints
\* coordinates of QueryPoints
NumRepeatPoints == 2

RepeatPoints == {Coords[QueryPoints[i]] : i \in 1..NumRepeatPoints}

\* Monday 10:00 and Saturday 9:00
RepeatWhens == {datetime(0, 10, 0, 0), datetime(5, 9, 0, 0)}

RepeatKeys == {None, Some("key")}

CallAgain == CallWith(RepeatPoints, RepeatWhens, RepeatKeys)

\* a caller without a key keeps the arguments it passed and the dict it got
Remember ==
    /\ pc = "done"
    /\ NoKey(google_api_key)
    /\ earlier = None
    /\ earlier' = Some([origin_coords |-> origin_coords,
                        dest_coords |-> dest_coords,
                        when |-> when,
                        result |-> result])
    /\ UNCHANGED << ROUTES, pc, args, o_stop, o_stop_dist, d_stop, d_stop_dist,
                    route, hw, walk_to_stop_min, walk_from_stop_min,
                    uses_google_api, ext, calls, result, parked, probe >>

NextRepeated ==
    \/ CallAgain
    \/ ResolveStops
    \/ ConnectRoute
    \/ CheckService
    \/ CheckHeadway
    \/ WalkToStop
    \/ WalkFromStop
    \/ Ride
    \/ Remember
    \/ Return

SpecRepeated == Init /\ [][NextRepeated]_vars

-----------------------------------------------------------------------------
(* Calls running at the same time *)

\* the calls suspended while one runs
NumParked == 1

ConcurrentPoints == {<< 404449, -799429 >>, << 404520, -799392 >>}

ConcurrentWhens == {datetime(0, 10, 0, 0)}

ConcurrentKeys == {None, Some("key")}

FewWalkingResponses == {Response("ok", 90)}

FewDrivingResponses == {Response("raise", 0), Response("ok", 180)}

\* the arguments and locals of the running call: its frame
Frame ==
    [pc |-> pc,
     origin_coords |-> origin_coords,
     dest_coords |-> dest_coords,
     when |-> when,
     google_api_key |-> google_api_key,
     o_stop |-> o_stop, o_stop_dist |-> o_stop_dist,
     d_stop |-> d_stop, d_stop_dist |-> d_stop_dist,
     route |-> route,
     hw |-> hw,
     walk_to_stop_min |-> walk_to_stop_min,
     walk_from_stop_min |-> walk_from_stop_min,
     uses_google_api |-> uses_google_api,
     ext |-> ext,
     calls |-> calls,
     result |-> result]

IdleFrame ==
    [pc |-> "idle",
     origin_coords |-> << >>,
     dest_coords |-> << >>,
     when |-> 0,
     google_api_key |-> None,
     o_stop |-> NoStop, o_stop_dist |-> 0,
     d_stop |-> NoStop, d_stop_dist |-> 0,
     route |-> None,
     hw |-> None,
     walk_to_stop_min |-> 0,
     walk_from_stop_min |-> 0,
     uses_google_api |-> FALSE,
     ext |-> NoCalls,
     calls |-> << >>,
     result |-> None]

InitConcurrent ==
    /\ ROUTES = ShippedROUTES
    /\ pc = "idle"
    /\ Unbound
    /\ earlier = None
    /\ parked = [i \in 1..NumParked |-> IdleFrame]
    /\ probe = None

CallConcurrent == CallWith(ConcurrentPoints, ConcurrentWhens, ConcurrentKeys)

\* walk_to_stop_min kept in a module-level name that every call writes
Switch_walk_shared(i) ==
    /\ parked' = [parked EXCEPT ![i] = Frame]
    /\ pc' = parked[i].pc
    /\ origin_coords' = parked[i].origin_coords
    /\ dest_coords' = parked[i].dest_coords
    /\ when' = parked[i].when
    /\ google_api_key' = parked[i].google_api_key
    /\ o_stop' = parked[i].o_stop /\ o_stop_dist' = parked[i].o_stop_dist
    /\ d_stop' = parked[i].d_stop /\ d_stop_dist' = parked[i].d_stop_dist
    /\ route' = parked[i].route
    /\ hw' = parked[i].hw
    /\ walk_from_stop_min' = parked[i].walk_from_stop_min
    /\ uses_google_api' = parked[i].uses_google_api
    /\ ext' = parked[i].ext
    /\ calls' = parked[i].calls
    /\ result' = parked[i].result
    /\ UNCHANGED << ROUTES, earlier, probe, walk_to_stop_min >>

\* the scheduler suspends the running call between two of its steps and
\* resumes the i-th suspended one: every argument and local of lines 251-382
\* belongs to the frame of its call
Switch(i) ==
    /\ parked' = [parked EXCEPT ![i] = Frame]
    /\ pc' = parked[i].pc
    /\ origin_coords' = parked[i].origin_coords
    /\ dest_coords' = parked[i].dest_coords
    /\ when' = parked[i].when
    /\ google_api_key' = parked[i].google_api_key
    /\ o_stop' = parked[i].o_stop /\ o_stop_dist' = parked[i].o_stop_dist
    /\ d_stop' = parked[i].d_stop /\ d_stop_dist' = parked[i].d_stop_dist
    /\ route' = parked[i].route
    /\ hw' = parked[i].hw
    /\ walk_to_stop_min' = parked[i].walk_to_stop_min
    /\ walk_from_stop_min' = parked[i].walk_from_stop_min
    /\ uses_google_api' = parked[i].uses_google_api
    /\ ext' = parked[i].ext
    /\ calls' = parked[i].calls
    /\ result' = parked[i].result
    /\ UNCHANGED << ROUTES, earlier, probe >>

SwitchCalls == \E i \in 1..Len(parked) : Switch(i)

NextConcurrent ==
    \/ CallConcurrent
    \/ ResolveStops
    \/ ConnectRoute
    \/ CheckService
    \/ CheckHeadway
    \/ WalkToStopAnswered(Answers(FewWalkingResponses))
    \/ WalkFromStopAnswered(Answers(FewWalkingResponses))
    \/ RideAnswered(Answers(FewDrivingResponses))
    \/ Return
    \/ SwitchCalls

SpecConcurrent == InitConcurrent /\ [][NextConcurrent]_vars

\* lines 251-382 run from entry to return with nothing in between: the dict
\* returned for the arguments and for what the three estimators gave back
plan_shuttle_trip(origin, dest, dt, walk_to_got, walk_from_got, driving_got) ==
    LET o == find_nearest_stop(origin[1], origin[2])
        d == find_nearest_stop(dest[1], dest[2])
        r == find_route_connecting(o.stop, d.stop)
        headway == headway_minutes(r[1], dt)
        walk_to == IF walk_to_got # None THEN walk_to_got[1]
                   ELSE walking_minutes_heuristic(o.dist)
        walk_from == IF walk_from_got # None THEN walk_from_got[1]
                     ELSE walking_minutes_heuristic(d.dist)
    IN  IF r = None THEN NoRouteResult(o.stop, d.stop)
        ELSE IF ~service_is_active(r[1], dt) THEN InactiveResult(r[1], o.stop, d.stop)
        ELSE IF headway = None THEN NoHeadwayResult(r[1])
        ELSE SuccessResult(r[1], o.stop, d.stop, dt, headway[1], walk_to, walk_from,
                           driving_got,
                           walk_to_got # None \/ walk_from_got # None)

\* what an estimator gave back to the call of a frame, None when not reached
Got(e) == IF e = None THEN None ELSE e[1].returned.value

-----------------------------------------------------------------------------
(* The helpers called on their own *)

\* a second stop at the place of Morewood & Forbes, on a route of its own
MOREWOOD_OUTBOUND == Stop("Morewood & Forbes (Outbound)", 404449, -799429)

\* the shipped catalog with a route added whose first stop is as far from
\* every place as a stop that comes earlier in the catalog
TwinROUTES ==
    ShippedROUTES
        \o << RouteDefinition("Outbound", <<MOREWOOD_OUTBOUND, PTC_TECH_DR>>,
                              30, None,
                              <<time(7, 0), time(19, 30)>>,
                              None) >>

\* the shipped catalog with a route added that connects two stops an earlier
\* route connects already
ExpressROUTES ==
    ShippedROUTES
        \o << RouteDefinition("Express", <<PTC_TECH_DR, MOREWOOD_FORBES>>,
                              30, None,
                              <<time(7, 0), time(19, 30)>>,
                              None) >>

HelperCatalogs == {ShippedROUTES, EditedROUTES, TwinROUTES, ExpressROUTES}

InitHelpers ==
    /\ ROUTES \in HelperCatalogs
    /\ pc = "idle"
    /\ Unbound
    /\ Alone

\* the distances walking_minutes_heuristic is called with: those between the
\* places of the model, zero, and distances next to a half minute of walking
WalkedMiles ==
    {HaversineTable[i][j] : i, j \in 1..Len(Coords)}
        \cup {0, 1, 24999, 25000, 25001, 74999, 75001, 1000000}

\* the datetimes service_is_active is called with: a Monday, a Friday, a
\* Saturday and a Sunday, at and around the ends of the windows of the catalogs
ServiceWhens ==
    {datetime(weekday, hm[1], hm[2], second) :
        weekday \in {0, 4, 5, 6},
        hm \in {<<0, 0>>, <<6, 59>>, <<7, 0>>, <<9, 59>>, <<10, 0>>, <<12, 0>>,
                <<18, 0>>, <<18, 1>>, <<19, 30>>, <<19, 31>>, <<20, 0>>,
                <<20, 1>>, <<23, 30>>, <<23, 31>>, <<23, 59>>},
        second \in {0, 59}}

Called(fn, arguments, value) == [fn |-> fn, args |-> arguments, value |-> value]

Quiet ==
    UNCHANGED << ROUTES, pc, args, o_stop, o_stop_dist, d_stop, d_stop_dist,
                 route, hw, walk_to_stop_min, walk_from_stop_min,
                 uses_google_api, ext, calls, result, earlier, parked >>

\* lines 210-221 called with a place of the model
ProbeNearestStop ==
    /\ probe = None
    /\ \E i \in 1..Len(Coords) :
         probe' = Some(Called("find_nearest_stop", Coords[i],
                              find_nearest_stop(Coords[i][1], Coords[i][2])))
    /\ Quiet

\* lines 233-242 called with a route of the catalog and two of its stops
ProbeDistanceAlongRoute ==
    /\ probe = None
    /\ \E i \in 1..Len(ROUTES) :
         \E ia, ib \in 1..Len(ROUTES[i].stops) :
            probe' = Some(Called("distance_along_route", << i, ia, ib >>,
                                 distance_along_route(ROUTES[i], ROUTES[i].stops[ia],
                                                      ROUTES[i].stops[ib])))
    /\ Quiet

\* lines 73-75 called with a distance
ProbeWalkingMinutes ==
    /\ probe = None
    /\ \E miles \in WalkedMiles :
         probe' = Some(Called("walking_minutes_heuristic", miles,
                              walking_minutes_heuristic(miles)))
    /\ Quiet

\* lines 190-201 called with a route of the catalog and a datetime
ProbeServiceIsActive ==
    /\ probe = None
    /\ \E i \in 1..Len(ROUTES) :
         \E dt \in ServiceWhens :
            probe' = Some(Called("service_is_active", << i, dt >>,
                                 service_is_active(ROUTES[i], dt)))
    /\ Quiet

\* the distances estimate_in_vehicle_minutes is called with: those between
\* the places of the model, the two hops of PTC & Mill 19, zero, and distances
\* next to a half minute of riding
RiddenMiles ==
    {HaversineTable[i][j] : i, j \in 1..Len(Coords)}
        \cup {2254092 + 1383385}
        \cup {0, 1, 499999, 500000, 500001, 600000, 699999, 700001, 899999,
              900001, 5000000}

\* lines 204-207 called with a route of the catalog and a datetime
ProbeHeadwayMinutes ==
    /\ probe = None
    /\ \E i \in 1..Len(ROUTES) :
         \E dt \in ServiceWhens :
            probe' = Some(Called("headway_minutes", << i, dt >>,
                                 headway_minutes(ROUTES[i], dt)))
    /\ Quiet

\* lines 224-230 called with two stops of the catalog
ProbeRouteConnecting ==
    /\ probe = None
    /\ LET stops == Unique(AllStops(ROUTES), << >>)
       IN  \E i, j \in 1..Len(stops) :
              probe' = Some(Called("find_route_connecting", << stops[i], stops[j] >>,
                                   find_route_connecting(stops[i], stops[j])))
    /\ Quiet

\* lines 245-248 called with a distance
ProbeInVehicleMinutes ==
    /\ probe = None
    /\ \E miles \in RiddenMiles :
         probe' = Some(Called("estimate_in_vehicle_minutes", miles,
                              estimate_in_vehicle_minutes(miles)))
    /\ Quiet

\* the caller is done with the value a helper returned
ProbeReturn ==
    /\ probe # None
    /\ probe' = None
    /\ Quiet

NextHelpers ==
    \/ ProbeNearestStop
    \/ ProbeDistanceAlongRoute
    \/ ProbeWalkingMinutes
    \/ ProbeServiceIsActive
    \/ ProbeHeadwayMinutes
    \/ ProbeRouteConnecting
    \/ ProbeInVehicleMinutes
    \/ ProbeReturn

SpecHelpers == InitHelpers /\ [][NextHelpers]_vars

-----------------------------------------------------------------------------
(* Properties of plan_shuttle_trip *)

Plan == result[1]

Succeeded == pc = "done" /\ result # None /\ result[1].success

\* the route r holds the two stop names at two different positions
Connects(r, origin_name, dest_name) ==
    \E i, j \in 1..Len(r.stops) :
        i # j /\ r.stops[i].name = origin_name /\ r.stops[j].name = dest_name

NoRouteConnects ==
    \A k \in 1..Len(ROUTES) : ~Connects(ROUTES[k], o_stop.name, d_stop.name)

\* the call is past its search for a route
PastConnect == pc \notin {"idle", "resolve", "connect"}

\* the call is past its test of the service window
PastService == pc \notin {"idle", "resolve", "connect", "service"}

\* the estimator call did not give a duration: no usable key, an exception,
\* an empty list or a malformed leg
Failed(call) == call # None /\ call[1].response.kind # "ok"

\* the estimator call gave a duration
Answered(call) == call # None /\ call[1].response.kind = "ok"

\* the minutes of a duration of that many seconds, round(seconds / 60)
AnsweredMinutes(call) == RoundDiv(call[1].response.seconds, 60)

HeuristicRide == estimate_in_vehicle_minutes(distance_along_route(route[1], o_stop, d_stop))

\* C1: when no route of the catalog holds the nearest origin stop and the
\* nearest destination stop at different positions, the call returns, at any
\* timestamp, the failure "No single shuttle route connects the nearest stops"
\* with the names of both stops, and goes no further.
C1_NoConnectingRouteFails ==
    (PastConnect /\ NoRouteConnects) =>
        /\ pc = "done"
        /\ result # None
        /\ ~Plan.success
        /\ Plan.reason = "No single shuttle route connects the nearest stops"
        /\ Plan.origin_stop = o_stop.name
        /\ Plan.dest_stop = d_stop.name

\* two different stops that no route joins, at the last timestamp of the model
C1_Witness ==
    /\ pc = "done" /\ result # None
    /\ NoRouteConnects
    /\ o_stop.name = FIFTH_AIKEN.name /\ d_stop.name = MILL_19.name
    /\ when = datetime(6, 23, 31, 0)
    /\ Plan.reason = "No single shuttle route connects the nearest stops"

\* C2: when a route connects the stops but is not in service at the
\* timestamp, the call returns a failure whose reason is the route name
\* followed by " not operating at selected time", without any steps.
C2_InactiveServiceFails ==
    (PastService /\ route # None /\ ~service_is_active(route[1], when)) =>
        /\ pc = "done"
        /\ result # None
        /\ ~Plan.success
        /\ Plan.reason = route[1].name \o " not operating at selected time"
        /\ "steps" \notin DOMAIN Plan

\* Saturday 9:00 on A/B/AB, an hour before its weekend window opens
C2_Witness ==
    /\ pc = "done" /\ result # None
    /\ route # None /\ route[1].name = "A/B/AB"
    /\ when = datetime(5, 9, 0, 0)
    /\ Plan.reason = "A/B/AB not operating at selected time"

\* C3: each of the three failures carries a reason and all the identification
\* resolved by then: both stop names always, and the route name once a route
\* was found (the service-inactive and the no-headway failures).
C3_FailuresCarryIdentification ==
    (pc = "done" /\ result # None /\ ~Plan.success) =>
        /\ "reason" \in DOMAIN Plan
        /\ "origin_stop" \in DOMAIN Plan /\ Plan.origin_stop = o_stop.name
        /\ "dest_stop" \in DOMAIN Plan /\ Plan.dest_stop = d_stop.name
        /\ route # None =>
              "route_name" \in DOMAIN Plan /\ Plan.route_name = route[1].name

\* C4: whatever an estimator call does, plan_shuttle_trip does not raise; once
\* the estimators are called the plan succeeds, shows no reason of failure, and
\* every call that gave no duration is replaced by its heuristic.
C4_EstimatorFailuresFallBack ==
    /\ pc # "raised"
    /\ (pc = "done" /\ calls # << >>) =>
          /\ result # None /\ Plan.success
          /\ "reason" \notin DOMAIN Plan
          /\ Failed(ext.walk_to) =>
                Plan.steps[1].minutes = walking_minutes_heuristic(o_stop_dist)
          /\ Failed(ext.walk_from) =>
                Plan.steps[4].minutes = walking_minutes_heuristic(d_stop_dist)
          /\ Failed(ext.driving) => Plan.steps[3].minutes = HeuristicRide

\* a plan returned after an exception, a malformed leg and an empty list
C4_Witness ==
    /\ Succeeded
    /\ ext.walk_to[1].response.kind = "raise"
    /\ ext.walk_from[1].response.kind = "malformed"
    /\ ext.driving[1].response.kind = "empty"
    /\ ~Plan.uses_google_api

\* C5: each of the two walks is resolved by its own call: the estimate of that
\* call when it gave one, else the heuristic of that side's own distance.
C5_WalksResolvedIndependently ==
    Succeeded =>
        /\ Plan.steps[1].minutes =
              IF Answered(ext.walk_to) THEN AnsweredMinutes(ext.walk_to)
              ELSE walking_minutes_heuristic(o_stop_dist)
        /\ Plan.steps[4].minutes =
              IF Answered(ext.walk_from) THEN AnsweredMinutes(ext.walk_from)
              ELSE walking_minutes_heuristic(d_stop_dist)

\* the walk to the stop estimated, the walk from the stop by the heuristic of a
\* distance that differs from the origin side's
C5_Witness ==
    /\ Succeeded
    /\ Answered(ext.walk_to) /\ Failed(ext.walk_from)
    /\ google_api_key = Some("key")
    /\ Plan.steps[1].minutes = 2
    /\ o_stop_dist # d_stop_dist
    /\ Plan.steps[4].minutes = 23

\* C6 as stated: the ride is exactly 1.2 times the driving estimate when there
\* is one, and the heuristic of the distance along the route otherwise.
C6_RideIsDrivingTimesOnePointTwo ==
    Succeeded =>
        IF Answered(ext.driving)
        THEN 10 * Plan.steps[3].minutes = 12 * AnsweredMinutes(ext.driving)
        ELSE Plan.steps[3].minutes = HeuristicRide

\* C6, amended: the ride is 1.2 times the driving estimate truncated to whole
\* minutes when there is one, and the heuristic of the distance along the
\* route otherwise.
C6_RideIsDrivingScaledAndTruncated ==
    Succeeded =>
        IF Answered(ext.driving)
        THEN /\ 10 * Plan.steps[3].minutes <= 12 * AnsweredMinutes(ext.driving)
             /\ 12 * AnsweredMinutes(ext.driving) < 10 * (Plan.steps[3].minutes + 1)
        ELSE Plan.steps[3].minutes = HeuristicRide

\* a driving estimate of 3 minutes, whose 3.6 is truncated to 3
C6_Witness ==
    /\ Succeeded
    /\ Answered(ext.driving) /\ AnsweredMinutes(ext.driving) = 3
    /\ Plan.steps[3].minutes = 3

\* the headway of the chosen route on the day of the request, from the catalog
CatalogHeadway ==
    LET r == CHOOSE x \in {ROUTES[k] : k \in 1..Len(ROUTES)} : x.name = Plan.route_name
    IN  IF dt_weekday(when) \in {5, 6} THEN r.weekend_headway_min[1]
        ELSE r.weekday_headway_min

\* C7: on a successful plan the wait is half the headway rounded down, and 1
\* when that is less than 1.
C7_WaitIsHalfHeadway ==
    Succeeded =>
        /\ Plan.steps[2].minutes =
              IF CatalogHeadway \div 2 >= 1 THEN CatalogHeadway \div 2 ELSE 1
        /\ Plan.totals.wait_minutes = Plan.steps[2].minutes
        /\ Plan.steps[2].minutes >= 1

\* an odd headway: 15 minutes on a weekend give a wait of 7
C7_Witness ==
    /\ Succeeded
    /\ CatalogHeadway = 15
    /\ Plan.steps[2].minutes = 7

\* C8: the totals of a successful plan are the sums of its steps' minutes.
C8_TotalsAreSums ==
    Succeeded =>
        /\ Plan.totals.minutes =
              Plan.steps[1].minutes + Plan.steps[2].minutes
                  + Plan.steps[3].minutes + Plan.steps[4].minutes
        /\ Plan.totals.walk_minutes = Plan.steps[1].minutes + Plan.steps[4].minutes
        /\ Plan.totals.wait_minutes = Plan.steps[2].minutes
        /\ Plan.totals.in_vehicle_minutes = Plan.steps[3].minutes

\* four different positive parts
C8_Witness ==
    /\ Succeeded
    /\ Plan.steps[1].minutes = 23 /\ Plan.steps[2].minutes = 15
    /\ Plan.steps[3].minutes = 7 /\ Plan.steps[4].minutes = 2
    /\ Plan.totals.minutes = 47

\* C9: the board time shown is the request time plus the walk to the stop and
\* the wait, and the arrival time shown is the request time plus the total
\* minutes, across midnight too.
C9_BoardAndArrivalTimes ==
    Succeeded =>
        /\ Plan.times.board_time =
              fmt(when + 60 * (Plan.steps[1].minutes + Plan.steps[2].minutes))
        /\ Plan.times.arrival_time = fmt(when + 60 * Plan.totals.minutes)

\* Monday 23:30: boarding at 23:58, arrival after midnight
C9_Witness ==
    /\ Succeeded
    /\ when = datetime(0, 23, 30, 0)
    /\ Plan.times.board_time = "11:58 PM"
    /\ Plan.times.arrival_time = "12:02 AM"

\* C10: a successful plan has the four steps WALK, WAIT, SHUTTLE, WALK in that
\* order, from "Origin" to the origin stop, waiting there for the route, riding
\* the route to the destination stop, and on to "Destination"; the names are
\* those of the plan.
C10_FourStepsInOrder ==
    Succeeded =>
        /\ Len(Plan.steps) = 4
        /\ [i \in 1..4 |-> Plan.steps[i].type] = << "WALK", "WAIT", "SHUTTLE", "WALK" >>
        /\ Plan.steps[1].from = "Origin" /\ Plan.steps[1].to = Plan.origin_stop
        /\ Plan.steps[2].at = Plan.origin_stop
        /\ Plan.steps[2].route = Plan.route_name
        /\ Plan.steps[3].route = Plan.route_name
        /\ Plan.steps[3].from = Plan.origin_stop
        /\ Plan.steps[3].to = Plan.dest_stop
        /\ "miles" \in DOMAIN Plan.steps[3]
        /\ Plan.steps[4].from = Plan.dest_stop /\ Plan.steps[4].to = "Destination"
        /\ Plan.origin_stop = o_stop.name
        /\ Plan.dest_stop = d_stop.name
        /\ Plan.route_name = route[1].name

\* Mill 19 to PTC, against the direction of the route's stop list
C10_Witness ==
    /\ Succeeded
    /\ Plan.route_name = "PTC & Mill 19"
    /\ Plan.steps[3].from = MILL_19.name /\ Plan.steps[3].to = PTC_TECH_DR.name
    /\ Plan.steps[3].miles = 225

-----------------------------------------------------------------------------
(* Properties of calls one after another *)

\* the running call has the arguments of the remembered one, and no key
SameAsEarlier ==
    /\ earlier # None
    /\ NoKey(google_api_key)
    /\ origin_coords = earlier[1].origin_coords
    /\ dest_coords = earlier[1].dest_coords
    /\ when = earlier[1].when

\* C11: a call without a key returns the dict that an earlier call without a
\* key returned for the same origin, destination and timestamp, whatever calls
\* ran before the earlier one or between the two.
C11_SameArgumentsSameResult ==
    (pc = "done" /\ SameAsEarlier) => result = earlier[1].result

\* the same successful plan a second time
C11_Witness ==
    /\ pc = "done" /\ SameAsEarlier
    /\ result # None /\ Plan.success
    /\ ~Plan.uses_google_api
    /\ result = earlier[1].result

-----------------------------------------------------------------------------
(* Properties of calls running at the same time *)

\* the dict a frame holds is the one its call returns when it runs alone
ReturnsAsAlone(f) ==
    f.pc = "done" =>
        f.result = Some(plan_shuttle_trip(f.origin_coords, f.dest_coords, f.when,
                                          Got(f.ext.walk_to), Got(f.ext.walk_from),
                                          Got(f.ext.driving)))

\* C12: however the steps of calls running at the same time interleave, every
\* call returns the dict it returns when it runs alone on its arguments and
\* its estimator answers, and no step modifies the catalog ROUTES
C12_ConcurrentCallsIndependent ==
    /\ [](ReturnsAsAlone(Frame) /\ \A i \in 1..Len(parked) : ReturnsAsAlone(parked[i]))
    /\ [][ROUTES' = ROUTES]_vars

\* a call with a key has its dict from Google's walking minutes while another
\* call, without a key, stands between its two walks
C12_Witness ==
    /\ Len(parked) >= 1
    /\ pc = "done" /\ result # None /\ result[1].success
    /\ result[1].uses_google_api
    /\ ReturnsAsAlone(Frame)
    /\ parked[1].pc = "walk_from"
    /\ NoKey(parked[1].google_api_key)
    /\ parked[1].walk_to_stop_min = 1

-----------------------------------------------------------------------------
(* Properties of the helpers *)

Probed(fn) == probe # None /\ probe[1].fn = fn

\* the stops of the catalog in the order of the routes and of their stops
CatalogStops == AllStops(ROUTES)

\* the position at which a stop name first appears in the catalog
FirstAppearance(name) ==
    CHOOSE i \in 1..Len(CatalogStops) :
        /\ CatalogStops[i].name = name
        /\ \A j \in 1..(i - 1) : CatalogStops[j].name # name

\* the de-duplicated stop set: of each name the stop that appears first
DeduplicatedStops ==
    {CatalogStops[FirstAppearance(CatalogStops[i].name)] : i \in 1..Len(CatalogStops)}

MilesTo(place, s) == haversine_miles(place[1], place[2], s.lat, s.lon)

\* C13: find_nearest_stop returns a stop of the de-duplicated catalog stops
\* that no other stop is nearer to the query point than, with its distance,
\* and among the stops at that distance the one that appears first in the catalog
C13_NearestStopFirstOfTheNearest ==
    Probed("find_nearest_stop") =>
        LET place == probe[1].args
            nearest == probe[1].value.stop
        IN  /\ nearest \in DeduplicatedStops
            /\ probe[1].value.dist = MilesTo(place, nearest)
            /\ \A s \in DeduplicatedStops :
                  /\ MilesTo(place, nearest) <= MilesTo(place, s)
                  /\ MilesTo(place, s) = MilesTo(place, nearest)
                        => FirstAppearance(nearest.name) <= FirstAppearance(s.name)

\* a place is as far from the outbound stop as from Morewood & Forbes, which
\* comes first in the catalog and is returned
C13_Witness ==
    /\ Probed("find_nearest_stop")
    /\ probe[1].value.stop = MOREWOOD_FORBES
    /\ MOREWOOD_OUTBOUND \in DeduplicatedStops
    /\ MilesTo(probe[1].args, MOREWOOD_OUTBOUND) = probe[1].value.dist
    /\ probe[1].value.dist > 0

\* the hop from the stop at position i of a route to the next one
Hop(r, i) ==
    haversine_miles(r.stops[i].lat, r.stops[i].lon,
                    r.stops[i + 1].lat, r.stops[i + 1].lon)

RECURSIVE HopsBetween(_, _, _)
\* the hops between two positions of a route, the lower one given first
HopsBetween(r, lower, higher) ==
    IF higher <= lower THEN 0
    ELSE HopsBetween(r, lower, higher - 1) + Hop(r, higher - 1)

\* C14: distance_along_route gives the same miles for a, b as for b, a, and
\* both are the sum of the hops between consecutive stops from the lower to
\* the higher of the two positions, zero when a and b are the same stop
C14_DistanceAlongRouteEitherWay ==
    Probed("distance_along_route") =>
        LET r == ROUTES[probe[1].args[1]]
            ia == probe[1].args[2]
            ib == probe[1].args[3]
            lower == IF ia <= ib THEN ia ELSE ib
            higher == IF ia <= ib THEN ib ELSE ia
        IN  /\ probe[1].value = distance_along_route(r, r.stops[ib], r.stops[ia])
            /\ probe[1].value = HopsBetween(r, lower, higher)
            /\ ia = ib => probe[1].value = 0

\* from Mill 19 back to Morewood & Forbes: two hops, asked from the higher
\* position to the lower one
C14_Witness ==
    /\ Probed("distance_along_route")
    /\ ROUTES[probe[1].args[1]].name = "PTC & Mill 19"
    /\ probe[1].args[2] = 3
    /\ probe[1].args[3] = 1
    /\ probe[1].value = 2254092 + 1383385

\* an integer n is round(x) for x = twentieths / 1000000: no integer is
\* nearer to x, and of two equally near ones n is the even one
IsRounded(n, twentieths) ==
    LET twice_off == IF 2 * twentieths >= 2 * n * 1000000
                     THEN 2 * twentieths - 2 * n * 1000000
                     ELSE 2 * n * 1000000 - 2 * twentieths
    IN  twice_off < 1000000 \/ (twice_off = 1000000 /\ n % 2 = 0)

\* C15: walking_minutes_heuristic(miles) is max(1, round(miles / 3.0 * 60)),
\* and is at least 1 for every distance from zero up
C15_WalkingMinutesAtLeastOne ==
    Probed("walking_minutes_heuristic") =>
        LET miles == probe[1].args
            minutes == probe[1].value
        IN  /\ minutes >= 1
            /\ \E n \in 0..(minutes + 1) :
                  /\ IsRounded(n, miles * 20)
                  /\ minutes = (IF n >= 1 THEN n ELSE 1)

\* no distance at all is a walk of one minute
C15_Witness ==
    /\ Probed("walking_minutes_heuristic")
    /\ probe[1].args = 0
    /\ probe[1].value = 1

\* the whole minutes of the day of a datetime lie in a window, ends included
WithinWindow(dt, window) ==
    LET m == (dt % 86400) \div 60
    IN  /\ window[1].hour * 60 + window[1].minute <= m
        /\ m <= window[2].hour * 60 + window[2].minute

\* C20: service_is_active(route, dt) is true exactly when dt is a weekday
\* within the weekday window, or a Saturday or Sunday, the route has a
\* weekend window and dt is within it; both ends of a window count, to the
\* minute, and a route without a weekend window is inactive all weekend
C20_ServiceIsActiveTruthTable ==
    Probed("service_is_active") =>
        LET r == ROUTES[probe[1].args[1]]
            dt == probe[1].args[2]
            day == dt \div 86400
        IN  probe[1].value =
               IF day \in {5, 6}
               THEN /\ r.service_span_weekend # None
                    /\ WithinWindow(dt, r.service_span_weekend[1])
               ELSE WithinWindow(dt, r.service_span_weekday)

\* a Friday at 23:30:59, in the last minute of the weekday window of A/B/AB
C20_Witness ==
    /\ Probed("service_is_active")
    /\ ROUTES[probe[1].args[1]].name = "A/B/AB"
    /\ probe[1].args[2] = datetime(4, 23, 30, 59)
    /\ probe[1].value = TRUE

-----------------------------------------------------------------------------
(* The scenarios of the shipped catalog *)

\* a call has returned or an exception has left it
Over == pc \in {"done", "raised"}

\* Scenario A: Morewood & Forbes to Fifth & Aiken on a Monday at 10:00 AM,
\* without a key for the estimators
ScenarioA ==
    /\ ROUTES = ShippedROUTES
    /\ origin_coords = << 404449, -799429 >>
    /\ dest_coords = << 404520, -799392 >>
    /\ when = datetime(0, 10, 0, 0)
    /\ NoKey(google_api_key)

\* C16: in Scenario A the call succeeds on route A/B/AB from Morewood & Forbes
\* to Fifth & Aiken, with a wait of 5 minutes for a headway of 10 and 3 or 4
\* minutes in the vehicle
C16_ScenarioA ==
    (ScenarioA /\ PastService /\ pc # "headway" => hw = Some(10))
    /\ (ScenarioA /\ Over =>
          /\ Succeeded
          /\ Plan.route_name = "A/B/AB"
          /\ Plan.origin_stop = "Morewood & Forbes (Main Campus)"
          /\ Plan.dest_stop = "Fifth Ave & Aiken Ave (Shadyside)"
          /\ Plan.steps[2].minutes = 5
          /\ Plan.totals.wait_minutes = 5
          /\ Plan.steps[3].minutes \in {3, 4}
          /\ Plan.totals.in_vehicle_minutes \in {3, 4})

\* the plan of Scenario A: a wait of 5 and 3 minutes in the vehicle
C16_Witness ==
    /\ ScenarioA
    /\ Succeeded
    /\ Plan.route_name = "A/B/AB"
    /\ Plan.steps[2].minutes = 5
    /\ Plan.steps[3].minutes = 3

\* Scenario B: the places of Scenario A on a Saturday at 9:00 AM
ScenarioB ==
    /\ ROUTES = ShippedROUTES
    /\ origin_coords = << 404449, -799429 >>
    /\ dest_coords = << 404520, -799392 >>
    /\ when = datetime(5, 9, 0, 0)

\* C17: in Scenario B service_is_active is false for the route found, A/B/AB,
\* whose weekend window opens at 10:00, and the call returns the failure
\* "A/B/AB not operating at selected time"
C17_ScenarioB ==
    (ScenarioB /\ PastConnect) =>
        /\ route # None
        /\ route[1].name = "A/B/AB"
        /\ route[1].service_span_weekend[1][1] = time(10, 0)
        /\ ~service_is_active(route[1], when)
        /\ pc \in {"service", "done"}
        /\ pc = "done" =>
              /\ result # None
              /\ ~Plan.success
              /\ Plan.reason = "A/B/AB not operating at selected time"

\* the failure of Scenario B has been returned
C17_Witness ==
    /\ ScenarioB
    /\ pc = "done"
    /\ result # None
    /\ ~Plan.success
    /\ Plan.reason = "A/B/AB not operating at selected time"
    /\ calls = << >>

\* Scenario C: from Mill 19 to Morewood & Forbes on a Saturday at 2:00 PM
ScenarioC ==
    /\ ROUTES = ShippedROUTES
    /\ origin_coords = << 404288, -799465 >>
    /\ dest_coords = << 404449, -799429 >>
    /\ when = datetime(5, 14, 0, 0)

\* C18: in Scenario C the call succeeds on route PTC & Mill 19, which is in
\* its weekend window of 10:00 to 18:00, with a wait of 22 minutes for the
\* weekend headway of 45, and the miles of the ride are the hop from Mill 19
\* to PTC plus the hop from PTC to Morewood & Forbes
C18_ScenarioC ==
    (ScenarioC /\ Over) =>
        /\ Succeeded
        /\ Plan.route_name = "PTC & Mill 19"
        /\ route[1].service_span_weekend = Some(<< time(10, 0), time(18, 0) >>)
        /\ service_is_active(route[1], when)
        /\ hw = Some(45)
        /\ Plan.steps[2].minutes = 22
        /\ Plan.steps[3].miles =
              RoundDiv(haversine_miles(MILL_19.lat, MILL_19.lon,
                                       PTC_TECH_DR.lat, PTC_TECH_DR.lon)
                         + haversine_miles(PTC_TECH_DR.lat, PTC_TECH_DR.lon,
                                           MOREWOOD_FORBES.lat, MOREWOOD_FORBES.lon),
                       10000)

\* the plan of Scenario C without a key: 3.64 miles by way of PTC, 18 minutes
C18_Witness ==
    /\ ScenarioC
    /\ NoKey(google_api_key)
    /\ Succeeded
    /\ Plan.route_name = "PTC & Mill 19"
    /\ Plan.steps[2].minutes = 22
    /\ Plan.steps[3].miles = 364
    /\ Plan.steps[3].minutes = 18

\* the stop name is on the C Route and on no other route of the catalog
OnlyOnCRoute(name) ==
    \A k \in 1..Len(ROUTES) :
        In(name, Names(ROUTES[k])) <=> ROUTES[k].name = "C Route"

\* the C Route as the catalog holds it
CRoute == ROUTES[CHOOSE k \in 1..Len(ROUTES) : ROUTES[k].name = "C Route"]

\* the failure of a plan names the C Route as the route without service
FailedForCRouteService ==
    /\ result # None
    /\ ~Plan.success
    /\ "route_name" \in DOMAIN Plan
    /\ Plan.route_name = "C Route"
    /\ Plan.reason \in {"C Route not operating at selected time",
                        "C Route has no service at this time/day"}

\* C19 as stated: on a Sunday, when the origin and the destination both
\* resolve to stops present only on the C Route, the call fails because the
\* C Route has no weekend service
C19_OnlyOnCRouteFailsForService ==
    (/\ ROUTES = ShippedROUTES
     /\ pc = "done"
     /\ dt_weekday(when) = 6
     /\ OnlyOnCRoute(o_stop.name)
     /\ OnlyOnCRoute(d_stop.name)) => FailedForCRouteService

\* Scenario D: on a Sunday the origin resolves to one and the destination to
\* the other of the two stops of the C Route
ScenarioD ==
    /\ ROUTES = ShippedROUTES
    /\ dt_weekday(when) = 6
    /\ PastConnect
    /\ {o_stop, d_stop} = {MOREWOOD_FORBES, MURRAY_FORBES}
    /\ o_stop # d_stop

\* C19: in Scenario D the route found is the C Route, which has neither a
\* weekend window nor a weekend headway, and the call returns the failure
\* "C Route not operating at selected time" without asking an estimator
C19_ScenarioD ==
    ScenarioD =>
        /\ route = Some(CRoute)
        /\ CRoute.service_span_weekend = None
        /\ CRoute.weekend_headway_min = None
        /\ pc \in {"service", "done"}
        /\ calls = << >>
        /\ pc = "done" =>
              /\ FailedForCRouteService
              /\ Plan.reason = "C Route not operating at selected time"

\* from Forbes & Murray to Morewood & Forbes on a Sunday at noon
C19_Witness ==
    /\ ScenarioD
    /\ when = datetime(6, 12, 0, 0)
    /\ o_stop = MURRAY_FORBES
    /\ d_stop = MOREWOOD_FORBES
    /\ pc = "done"
    /\ Plan.reason = "C Route not operating at selected time"

-----------------------------------------------------------------------------
(* Properties of the other helpers *)

\* C21: headway_minutes(route, dt) is the weekend headway of the route on a
\* Saturday or a Sunday, null when the route has none, and its weekday headway
\* on the other days, at every time of day, within the service window or not
C21_HeadwayByKindOfDay ==
    Probed("headway_minutes") =>
        LET r == ROUTES[probe[1].args[1]]
            dt == probe[1].args[2]
            day == dt \div 86400
        IN  probe[1].value =
               IF day \in {5, 6} THEN r.weekend_headway_min
               ELSE Some(r.weekday_headway_min)

\* a Friday at midnight, hours before the weekday window of A/B/AB opens
C21_Witness ==
    /\ Probed("headway_minutes")
    /\ ROUTES[probe[1].args[1]].name = "A/B/AB"
    /\ probe[1].args[2] = datetime(4, 0, 0, 0)
    /\ probe[1].value = Some(10)

\* the positions of the routes of the catalog that hold the two stop names at
\* two different positions
ConnectingPositions(origin_name, dest_name) ==
    {k \in 1..Len(ROUTES) : Connects(ROUTES[k], origin_name, dest_name)}

\* C22: find_route_connecting returns the first route in catalog order whose
\* stops hold both names at different positions, never a later one, and null
\* when no route does
C22_FirstConnectingRoute ==
    Probed("find_route_connecting") =>
        LET hits == ConnectingPositions(probe[1].args[1].name, probe[1].args[2].name)
        IN  IF hits = {} THEN probe[1].value = None
            ELSE \E k \in hits :
                    /\ \A j \in hits : k <= j
                    /\ probe[1].value = Some(ROUTES[k])

\* PTC and Morewood & Forbes are connected by PTC & Mill 19 and, later in the
\* catalog, by Express: PTC & Mill 19 is returned
C22_Witness ==
    /\ Probed("find_route_connecting")
    /\ probe[1].args = << PTC_TECH_DR, MOREWOOD_FORBES >>
    /\ Cardinality(ConnectingPositions(PTC_TECH_DR.name, MOREWOOD_FORBES.name)) = 2
    /\ probe[1].value # None
    /\ probe[1].value[1].name = "PTC & Mill 19"

-----------------------------------------------------------------------------
(* Properties of the catalog and of the checks of plan_shuttle_trip *)

\* the catalog holds routes of two stops or more without a repeated stop
\* name, with positive headways where it has one, and a stop name stands for
\* one place on every route
WellFormed(routes) ==
    /\ \A k \in 1..Len(routes) :
          LET r == routes[k]
          IN  /\ Len(r.stops) >= 2
              /\ \A i, j \in 1..Len(r.stops) :
                    r.stops[i].name = r.stops[j].name => i = j
              /\ r.weekday_headway_min \in Nat
              /\ r.weekday_headway_min > 0
              /\ r.weekend_headway_min # None =>
                    /\ r.weekend_headway_min[1] \in Nat
                    /\ r.weekend_headway_min[1] > 0
    /\ \A k, l \in 1..Len(routes) :
          \A i \in 1..Len(routes[k].stops) :
             \A j \in 1..Len(routes[l].stops) :
                routes[k].stops[i].name = routes[l].stops[j].name
                   => routes[k].stops[i] = routes[l].stops[j]

\* C24: every route of ROUTES has at least 2 stops and no stop name twice,
\* a positive weekday headway, a positive weekend headway or none, and a stop
\* shared by several routes has the same name and coordinates on each
C24_CatalogInvariant ==
    ROUTES = ShippedROUTES => WellFormed(ROUTES)

\* a plan made on the shipped catalog, whose four routes share Morewood & Forbes
C24_Witness ==
    /\ ROUTES = ShippedROUTES
    /\ Cardinality({k \in 1..Len(ROUTES) :
                       In(MOREWOOD_FORBES.name, Names(ROUTES[k]))}) = 4
    /\ Succeeded
    /\ Plan.origin_stop = MOREWOOD_FORBES.name

\* the route is in service at dt by the catalog: within the window of the
\* kind of day, which at a weekend the route must have
InService(r, dt) ==
    IF dt_weekday(dt) \in {5, 6}
    THEN r.service_span_weekend # None /\ WithinWindow(dt, r.service_span_weekend[1])
    ELSE WithinWindow(dt, r.service_span_weekday)

\* the route has a headway on the day of dt by the catalog
HasHeadway(r, dt) ==
    dt_weekday(dt) \in {5, 6} => r.weekend_headway_min # None

\* C25: whenever plan_shuttle_trip returns success, the route it chose holds
\* the resolved origin stop and the resolved destination stop at different
\* positions, is in service at the request timestamp and has a headway then
C25_SuccessPassedTheChecks ==
    Succeeded =>
        /\ route # None
        /\ Plan.route_name = route[1].name
        /\ Plan.origin_stop = o_stop.name
        /\ Plan.dest_stop = d_stop.name
        /\ Connects(route[1], o_stop.name, d_stop.name)
        /\ InService(route[1], when)
        /\ HasHeadway(route[1], when)
        /\ service_is_active(route[1], when)
        /\ headway_minutes(route[1], when) # None

\* a success at a weekend, on a route with a weekend window and headway
C25_Witness ==
    /\ Succeeded
    /\ dt_weekday(when) = 5
    /\ route # None
    /\ route[1].name = "PTC & Mill 19"
    /\ o_stop = MILL_19
    /\ d_stop = PTC_TECH_DR

\* the request is made in the last minute of the window the route has for
\* the kind of day
InLastMinute(r, dt) ==
    /\ InService(r, dt)
    /\ LET window == IF dt_weekday(dt) \in {5, 6} THEN r.service_span_weekend[1]
                     ELSE r.service_span_weekday
       IN  (dt % 86400) \div 60 = window[2].hour * 60 + window[2].minute

\* the request time plus the walk to the stop and the wait of the plan
BoardAt == when + 60 * (Plan.steps[1].minutes + Plan.steps[2].minutes)

\* C26: the service is tested at the request timestamp only: a request made
\* in the last minute of the service window of the route found succeeds, and
\* the board time the plan shows lies after the end of that window
C26_ServiceTestedAtRequestTimeOnly ==
    (/\ Over
     /\ route # None
     /\ InLastMinute(route[1], when)
     /\ ROUTES = ShippedROUTES \/ HasHeadway(route[1], when))
    => /\ Succeeded
       /\ BoardAt \div 60 > when \div 60
       /\ ~InService(route[1], BoardAt)
       /\ Plan.times.board_time = fmt(BoardAt)

\* A/B/AB on a Monday at 23:30, boarded at 23:36 after a walk of a minute
C26_Witness ==
    /\ Succeeded
    /\ ROUTES = ShippedROUTES
    /\ Plan.route_name = "A/B/AB"
    /\ when = datetime(0, 23, 30, 0)
    /\ InLastMinute(route[1], when)
    /\ Plan.times.board_time = "11:36 PM"

\* C27: when the origin and the destination resolve to the same nearest stop,
\* no route is found and the call returns, at every timestamp, the failure
\* "No single shuttle route connects the nearest stops" with origin_stop equal
\* to dest_stop
C27_SameStopHasNoRoute ==
    (PastConnect /\ o_stop = d_stop) =>
        /\ route = None
        /\ find_route_connecting(o_stop, d_stop) = None
        /\ pc = "done"
        /\ result # None
        /\ ~Plan.success
        /\ Plan.reason = "No single shuttle route connects the nearest stops"
        /\ Plan.origin_stop = Plan.dest_stop
        /\ Plan.origin_stop = o_stop.name

\* two different places near Morewood & Forbes, which is on every route
C27_Witness ==
    /\ pc = "done"
    /\ origin_coords # dest_coords
    /\ o_stop = MOREWOOD_FORBES
    /\ d_stop = MOREWOOD_FORBES
    /\ o_stop_dist > 0
    /\ Plan.origin_stop = Plan.dest_stop

\* the calls to the estimators made so far are the first of walk-to,
\* walk-from, driving
InEstimatorOrder ==
    \E n \in 0..3 : calls = SubSeq(<< "walk_to", "walk_from", "driving" >>, 1, n)

\* C28: the connecting-route check, the service check and the headway check
\* are made in that order and the first that fails decides the result; no
\* estimator is called before all three have passed, so a failure is returned
\* with no call made, and a success after walk-to, walk-from and driving in
\* that order
C28_ChecksThenEstimatorsInOrder ==
    /\ InEstimatorOrder
    /\ calls # << >> =>
          /\ route # None
          /\ Connects(route[1], o_stop.name, d_stop.name)
          /\ InService(route[1], when)
          /\ HasHeadway(route[1], when)
    /\ pc = "done" =>
          /\ result # None
          /\ IF NoRouteConnects
             THEN Plan = NoRouteResult(o_stop, d_stop)
             ELSE IF ~InService(route[1], when)
             THEN Plan = InactiveResult(route[1], o_stop, d_stop)
             ELSE IF ~HasHeadway(route[1], when)
             THEN Plan = NoHeadwayResult(route[1])
             ELSE Plan.success
          /\ ~Plan.success => calls = << >> /\ ext = NoCalls
          /\ Plan.success => calls = << "walk_to", "walk_from", "driving" >>

\* the C Route on a Sunday has neither a window nor a headway: the service
\* check comes first and decides, and no estimator was called
C28_Witness ==
    /\ pc = "done"
    /\ route # None
    /\ route[1].name = "C Route"
    /\ ~InService(route[1], when)
    /\ ~HasHeadway(route[1], when)
    /\ Plan = InactiveResult(route[1], o_stop, d_stop)
    /\ calls = << >>

\* the reasons of the failure of lines 284-288, one for each route
NoHeadwayReasons ==
    {ROUTES[k].name \o " has no service at this time/day" : k \in 1..Len(ROUTES)}

\* C29: with the shipped catalog every route has a weekend window exactly
\* when it has a weekend headway, so a route in service at the request
\* timestamp has a headway, and the failure "has no service at this time/day"
\* is never returned
C29_NoHeadwayFailureUnreachable ==
    ROUTES = ShippedROUTES =>
        /\ \A k \in 1..Len(ROUTES) :
              ROUTES[k].service_span_weekend = None
                 <=> ROUTES[k].weekend_headway_min = None
        /\ (route # None /\ InService(route[1], when)) =>
              /\ HasHeadway(route[1], when)
              /\ headway_minutes(route[1], when) # None
        /\ (pc = "done" /\ ~Plan.success) => Plan.reason \notin NoHeadwayReasons

\* A/B/AB at a weekend, past the headway check with a headway of 15
C29_Witness ==
    /\ ROUTES = ShippedROUTES
    /\ pc = "walk_to"
    /\ dt_weekday(when) = 5
    /\ route # None
    /\ route[1].name = "A/B/AB"
    /\ InService(route[1], when)
    /\ hw = Some(15)

\* the dict returned for the same timestamp, without a key, with the origin
\* and the destination exchanged
Swapped == plan_shuttle_trip(dest_coords, origin_coords, when, None, None, None)

\* C30: without a key, a call with origin and destination exchanged and the
\* same timestamp fails when this one fails and succeeds when it succeeds,
\* then on the same route with the same wait, in-vehicle minutes, miles and
\* total minutes, with origin_stop and dest_stop exchanged and the two walks
\* exchanged
C30_SwapOriginAndDestination ==
    (pc = "done" /\ NoKey(google_api_key)) =>
        /\ Plan.success = Swapped.success
        /\ Plan.success =>
              /\ Plan.route_name = Swapped.route_name
              /\ Plan.steps[2].minutes = Swapped.steps[2].minutes
              /\ Plan.steps[3].minutes = Swapped.steps[3].minutes
              /\ Plan.steps[3].miles = Swapped.steps[3].miles
              /\ Plan.totals.minutes = Swapped.totals.minutes
              /\ Plan.origin_stop = Swapped.dest_stop
              /\ Plan.dest_stop = Swapped.origin_stop
              /\ Plan.steps[1].minutes = Swapped.steps[4].minutes
              /\ Plan.steps[4].minutes = Swapped.steps[1].minutes

\* from a place 23 minutes from Morewood & Forbes to Mill 19, two hops away
C30_Witness ==
    /\ Succeeded
    /\ NoKey(google_api_key)
    /\ o_stop = MOREWOOD_FORBES
    /\ d_stop = MILL_19
    /\ Plan.steps[1].minutes = 23
    /\ Plan.steps[4].minutes = 1
    /\ Swapped.success
    /\ Swapped.steps[1].minutes = 1
    /\ Swapped.steps[4].minutes = 23
    /\ Swapped.steps[3].miles = 364

====
